---- MODULE Spec2Model ----
(***************************************************************************)
(* The MS4525DO differential pressure driver (ms4525_airspeed.cpp): the    *)
(* measure/collect state machine of MEASAirspeed::RunImpl, the decoding of *)
(* the 4-byte response in MEASAirspeed::collect and the scheduling of the  *)
(* next invocation.                                                        *)
(***************************************************************************)
EXTENDS Integers, Sequences, FiniteSets, TLC

\* ------------------------------------------------------------ constants

MEAS_RATE == 100
CONVERSION_INTERVAL == 1000000 \div MEAS_RATE

\* OK / PX4_OK and EAGAIN as the code uses them.
OK == 0
EAGAIN == 11

\* ------------------------------------------------------------ bounds

\* The comms error counter is capped: a step that would count past MaxErrors
\* is not taken (Spec, SpecPoll, TwoSpec) or wraps (LiveSpec).
MaxErrors == 2
\* Poll intervals above the conversion interval that SpecPoll configures:
\* CONVERSION_INTERVAL + k * PollStep for k in 1..MaxPollSteps.
MaxPollSteps == 1
PollStep == 5000

\* ------------------------------------------------------------ inputs

\* What transfer() can return: OK, a negative error, or another non-zero
\* value.
TransferResults == {OK, -1, 1}

\* Responses in the buffer val[0..3] (val[1..4] here). Normal responses: two
\* pressure counts and four temperature counts, 0 and 2047 among them.
Val0 == {0, 63}
Val1 == {0}
Val2 == {0, 255}
Val3 == {0, 255}
NormalVals ==
    {<<b0, b1, b2, b3>> : b0 \in Val0, b1 \in Val1, b2 \in Val2, b3 \in Val3}
\* Reserved, Stale and Fault responses, with the other bits clear and set.
ReservedVals == {<<64, 0, 0, 0>>}
StaleVals == {<<128, 0, 0, 0>>, <<191, 255, 255, 255>>}
FaultVals == {<<192, 0, 0, 0>>, <<255, 255, 255, 255>>}
Vals == NormalVals \cup ReservedVals \cup StaleVals \cup FaultVals

\* What a read that failed with a negative result leaves in the buffer, which
\* collect() then never looks at: the zeros it was initialised with, or a
\* whole Normal response.
FailedVals == {<<0, 0, 0, 0>>, <<63, 0, 0, 255>>}

\* A read transfer: its result and what it leaves in the buffer.
BusReads ==
    {[ret |-> r, val |-> v] : r \in TransferResults \ {-1}, v \in Vals}
        \cup {[ret |-> -1, val |-> v] : v \in FailedVals}

PollIntervals ==
    {0, CONVERSION_INTERVAL}
        \cup {CONVERSION_INTERVAL + k * PollStep : k \in 1..MaxPollSteps}

\* ------------------------------------------------------------ state

VARIABLES
    _collect_phase,     \* bool _collect_phase
    _sensor_ok,         \* bool _sensor_ok
    _measure_interval,  \* int _measure_interval
    _dp_raw_prev,       \* int16_t _dp_raw_prev
    _dT_raw_prev,       \* int16_t _dT_raw_prev
    _comms_errors,      \* event count of the perf counter _comms_errors
    work_queue,         \* delays of the scheduled invocations of RunImpl
    bus_read,           \* the read transfer the last invocation of RunImpl
                        \* issued: <<>> or <<[ret, val]>>
    run,                \* what the last invocation of RunImpl did
    last_val,           \* bytes the most recent collect read with an OK
                        \* transfer, <<>> when its transfer was not OK
    _sample_perf,       \* the perf counter _sample_perf: TRUE while an
                        \* interval is begun and not ended
    last_report,        \* the most recently published sample: <<>> or
                        \* <<report>>
    peer,               \* a second MEASAirspeed instance: its members, its
                        \* scheduled invocations and what its last
                        \* invocation of RunImpl did
    alone               \* <<first, second>>: each instance as it is when it
                        \* meets the same transfers with no other instance

vars == <<_collect_phase, _sensor_ok, _measure_interval, _dp_raw_prev,
          _dT_raw_prev, _comms_errors, work_queue, bus_read, run, last_val,
          _sample_perf, last_report, peer, alone>>

\* ------------------------------------------------------------ arithmetic

RECURSIVE BitAnd(_, _)
BitAnd(a, b) ==
    IF a = 0 \/ b = 0 THEN 0
    ELSE (a % 2) * (b % 2) + 2 * BitAnd(a \div 2, b \div 2)

ShiftLeft(a, n) == a * 2^n
ShiftRight(a, n) == a \div 2^n

\* Conversion of an int to int16_t.
Int16(a) == LET m == a % 65536 IN IF m >= 32768 THEN m - 65536 ELSE m

\* Exact arithmetic for the float expressions: a rational is <<n, d>> in lowest
\* terms with d > 0.
RECURSIVE GCD(_, _)
GCD(a, b) == IF b = 0 THEN a ELSE GCD(b, a % b)
Abs(a) == IF a < 0 THEN -a ELSE a
Rat(n, d) ==
    LET g == GCD(Abs(n), Abs(d))
        sgn == IF d < 0 THEN -1 ELSE 1
    IN  <<sgn * (n \div g), sgn * (d \div g)>>
RatNeg(p) == <<-p[1], p[2]>>
RatAdd(p, q) == Rat(p[1] * q[2] + q[1] * p[2], p[2] * q[2])
RatSub(p, q) == RatAdd(p, RatNeg(q))
RatMul(p, q) == Rat(p[1] * q[1], p[2] * q[2])
RatDiv(p, q) == Rat(p[1] * q[2], p[2] * q[1])
RatLess(p, q) == p[1] * q[2] < q[1] * p[2]

\* The product p * k of two rationals as whole + num / den with
\* 0 <= num < den, computed in parts that stay within 32 bits:
\* with k = kq + kr / k[2], p * k = p[1] * kq / p[2] + p[1] * kr / den.
MixedMul(p, k) ==
    LET kq == k[1] \div k[2]
        kr == k[1] % k[2]
        a == p[1] * kq
        den == p[2] * k[2]
        t == (a % p[2]) * k[2] + p[1] * kr
    IN  [whole |-> (a \div p[2]) + (t \div den), num |-> t % den, den |-> den]

\* ------------------------------------------------------------ bus

\* transfer(&cmd, 1, nullptr, 0) with cmd = 0
cmd_transfer == [send |-> <<0>>, send_len |-> 1, recv_len |-> 0]
\* transfer(nullptr, 0, &val[0], 4)
val_transfer == [send |-> <<>>, send_len |-> 0, recv_len |-> 4]

\* ------------------------------------------------------------ measure()

\* measure() counting only negative results as errors.
measure_neg(ret, errs) ==
    [ret |-> ret,
     comms_errors |-> IF ret < 0 THEN errs + 1 ELSE errs]

measure(ret, errs) ==
    [ret |-> ret,
     comms_errors |-> IF OK # ret THEN errs + 1 ELSE errs]

\* ------------------------------------------------------------ collect()

\* The status taken with the mask 0x80 instead of 0xC0.
status_mask(val) == ShiftRight(BitAnd(val[1], 128), 6)

\* The status shifted by 7 instead of 6.
status_shift(val) == ShiftRight(BitAnd(val[1], 192), 7)

status(val) == ShiftRight(BitAnd(val[1], 192), 6)
dp_raw(val) == Int16(BitAnd(16383, ShiftLeft(val[1], 8) + val[2]))
\* The temperature count shifted after the conversion to int16_t.
dT_raw_cast(val) ==
    ShiftRight(Int16(BitAnd(65504, ShiftLeft(val[3], 8) + val[4])), 5)

dT_raw(val) == Int16(ShiftRight(BitAnd(65504, ShiftLeft(val[3], 8) + val[4]), 5))

\* collect() not testing the result of the transfer.
transfer_unchecked(ret) == FALSE

transfer_failed(ret) == ret < 0

\* Publishing when either count changed.
publish_either(dp, dT, dp_prev, dT_prev) == (dp # dp_prev) \/ (dT # dT_prev)

publish_changes(dp, dT, dp_prev, dT_prev) == (dp # dp_prev) /\ (dT # dT_prev)

\* A cache update that stores the pressure count only.
cache_update_dp(dp, dT, dp_prev, dT_prev) == <<dp, dT_prev>>

\* _dp_raw_prev = dp_raw; _dT_raw_prev = dT_raw;
cache_keep(dp, dT, dp_prev, dT_prev) == <<dp_prev, dT_prev>>
cache_update(dp, dT, dp_prev, dT_prev) == <<dp, dT>>

\* float temperature = ((200.0f * dT_raw) / 2047) - 50;
temperature(dT) ==
    RatSub(RatDiv(RatMul(<<200, 1>>, <<dT, 1>>), <<2047, 1>>), <<50, 1>>)

\* 1 PSI = 6894.757 Pa; the output range of the sensor in PSI.
P_min == <<-1, 1>>
P_max == <<1, 1>>
PSI_to_Pa == <<6894757, 1000>>

\* The transfer function without its negation.
diff_press_PSI_pos(dp) ==
    RatAdd(RatDiv(RatMul(RatSub(dp, RatMul(<<1, 10>>, <<16383, 1>>)),
                         RatSub(P_max, P_min)),
                  RatMul(<<8, 10>>, <<16383, 1>>)),
           P_min)

\* diff_press_PSI = -((dp_raw - 0.1f * 16383) * (P_max - P_min)
\*                     / (0.8f * 16383) + P_min), dp a rational
diff_press_PSI(dp) ==
    RatNeg(RatAdd(RatDiv(RatMul(RatSub(dp, RatMul(<<1, 10>>, <<16383, 1>>)),
                                RatSub(P_max, P_min)),
                         RatMul(<<8, 10>>, <<16383, 1>>)),
                  P_min))

\* float diff_press_pa_raw = diff_press_PSI * PSI_to_Pa;
diff_press_pa_raw(psi) == MixedMul(psi, PSI_to_Pa)

\* The published sample, with the counts it was converted from.
report(dp, dT, errs) ==
    [dp_raw |-> dp, dT_raw |-> dT,
     differential_pressure_pa |-> diff_press_pa_raw(diff_press_PSI(<<dp, 1>>)),
     temperature |-> temperature(dT),
     error_count |-> errs]

\* A temperature count that is rejected only above the 11-bit maximum.
dT_max_over(dT) == dT > 2047

\* dT max is almost certainly an invalid reading
dT_max(dT) == dT = 2047

\* perf_begin(_sample_perf) and perf_end(_sample_perf), as the events of one
\* collect().
perf_begin == <<"begin">>
perf_end(p) == Append(p, "end")

\* The outcome of collect(): its return value, the cache and the error count
\* after it, the counts it decoded (raw, <<>> when it returned before the
\* decode), the samples it published and its calls on _sample_perf.
collect(ret, val, dp_prev, dT_prev, errs) ==
    LET abort(r, e, d, p) == [ret |-> r, dp_raw_prev |-> dp_prev,
                              dT_raw_prev |-> dT_prev, comms_errors |-> e,
                              raw |-> d, published |-> <<>>, perf |-> p]
        st == status(val)
        dp == dp_raw(val)
        dT == dT_raw(val)
    IN  IF transfer_failed(ret)
        THEN abort(ret, errs + 1, <<>>, perf_end(perf_begin))
        ELSE IF st = 1 THEN abort(-EAGAIN, errs, <<>>, perf_begin)
        ELSE IF st = 2 THEN abort(-EAGAIN, errs, <<>>, perf_begin)
        ELSE IF st = 3
        THEN abort(-EAGAIN, errs + 1, <<>>, perf_end(perf_begin))
        ELSE IF dT_max(dT)
        THEN abort(-EAGAIN, errs + 1, <<dp, dT>>, perf_begin)
        ELSE IF publish_changes(dp, dT, dp_prev, dT_prev)
             THEN [ret |-> OK,
                   dp_raw_prev |-> cache_update(dp, dT, dp_prev, dT_prev)[1],
                   dT_raw_prev |-> cache_update(dp, dT, dp_prev, dT_prev)[2],
                   comms_errors |-> errs,
                   raw |-> <<dp, dT>>,
                   published |-> <<report(dp, dT, errs)>>,
                   perf |-> perf_end(perf_begin)]
             ELSE abort(OK, errs, <<dp, dT>>, perf_end(perf_begin))

\* ------------------------------------------------------------ RunImpl()

\* The session as RunImpl finds it, with nothing done yet.
Enter ==
    [collect_phase |-> _collect_phase, sensor_ok |-> _sensor_ok,
     measure_interval |-> _measure_interval,
     dp_raw_prev |-> _dp_raw_prev, dT_raw_prev |-> _dT_raw_prev,
     comms_errors |-> _comms_errors,
     schedule |-> <<>>, xfers |-> <<>>, collect |-> <<>>, measure |-> <<>>,
     raw |-> <<>>, published |-> <<>>, perf |-> <<>>]

\* An instance as a record: its members, its scheduled invocations and the
\* transfers, results and samples of its last invocation of RunImpl.
SessionInit ==
    [collect_phase |-> FALSE, sensor_ok |-> FALSE, measure_interval |-> 0,
     dp_raw_prev |-> 0, dT_raw_prev |-> 0, comms_errors |-> 0,
     work_queue |-> <<0>>, sample_perf |-> FALSE,
     xfers |-> <<>>, collect |-> <<>>, measure |-> <<>>, published |-> <<>>]

\* The first instance, whose members are the variables, as such a record.
Self ==
    [collect_phase |-> _collect_phase, sensor_ok |-> _sensor_ok,
     measure_interval |-> _measure_interval,
     dp_raw_prev |-> _dp_raw_prev, dT_raw_prev |-> _dT_raw_prev,
     comms_errors |-> _comms_errors,
     work_queue |-> work_queue, sample_perf |-> _sample_perf,
     xfers |-> run.xfers, collect |-> run.collect, measure |-> run.measure,
     published |-> run.published]

\* The instance i as RunImpl finds it, with nothing done yet.
EnterOf(i) ==
    [collect_phase |-> i.collect_phase, sensor_ok |-> i.sensor_ok,
     measure_interval |-> i.measure_interval,
     dp_raw_prev |-> i.dp_raw_prev, dT_raw_prev |-> i.dT_raw_prev,
     comms_errors |-> i.comms_errors,
     schedule |-> <<>>, xfers |-> <<>>, collect |-> <<>>, measure |-> <<>>,
     raw |-> <<>>, published |-> <<>>, perf |-> <<>>]

\* The second instance finding the cache of the first, as if the cache were
\* static members.
PeerEnterStatic ==
    [EnterOf(peer) EXCEPT !.dp_raw_prev = _dp_raw_prev,
                          !.dT_raw_prev = _dT_raw_prev]

\* The second instance as its RunImpl finds it.
PeerEnter == EnterOf(peer)

\* ret = collect();
collection(s, rx) ==
    LET c == collect(rx.ret, rx.val, s.dp_raw_prev, s.dT_raw_prev, s.comms_errors)
    IN  [s EXCEPT !.dp_raw_prev = c.dp_raw_prev,
                  !.dT_raw_prev = c.dT_raw_prev,
                  !.comms_errors = c.comms_errors,
                  !.xfers = Append(@, val_transfer),
                  !.collect = <<c.ret>>,
                  !.raw = c.raw,
                  !.perf = c.perf,
                  !.published = c.published]

\* RunImpl restarting only on results other than -EAGAIN.
collect_failed_hard(ret) == OK # ret /\ ret # -EAGAIN

\* if (OK != ret)
collect_failed(ret) == OK # ret

\* A restart that retries the collect alone.
restart_retry(s) ==
    [s EXCEPT !.sensor_ok = FALSE,
              !.schedule = Append(@, 0)]

\* A restart that schedules nothing.
restart_stop(s) ==
    [s EXCEPT !.collect_phase = FALSE,
              !.sensor_ok = FALSE]

\* restart the measurement state machine
restart(s) ==
    [s EXCEPT !.collect_phase = FALSE,
              !.sensor_ok = FALSE,
              !.schedule = Append(@, 0)]

\* A gap also when the poll interval equals the conversion interval.
measure_gap_ge(interval) == interval >= CONVERSION_INTERVAL

\* Is there a collect->measure gap?
measure_gap(interval) == interval > CONVERSION_INTERVAL

\* schedule a fresh cycle call when we are ready to measure again
wait_gap(s) ==
    [s EXCEPT !.schedule = Append(@, s.measure_interval - CONVERSION_INTERVAL)]

\* A measurement phase that leaves the phase flag alone.
measurement_stay(s, tx) ==
    LET m == measure(tx, s.comms_errors)
    IN  [s EXCEPT !.comms_errors = m.comms_errors,
                  !.xfers = Append(@, cmd_transfer),
                  !.measure = <<m.ret>>,
                  !.sensor_ok = (m.ret = OK),
                  !.schedule = Append(@, CONVERSION_INTERVAL)]

\* A measurement phase that schedules the collect after the poll interval.
measurement_poll(s, tx) ==
    LET m == measure(tx, s.comms_errors)
    IN  [s EXCEPT !.comms_errors = m.comms_errors,
                  !.xfers = Append(@, cmd_transfer),
                  !.measure = <<m.ret>>,
                  !.sensor_ok = (m.ret = OK),
                  !.collect_phase = TRUE,
                  !.schedule = Append(@, s.measure_interval)]

\* measurement phase
measurement(s, tx) ==
    LET m == measure(tx, s.comms_errors)
    IN  [s EXCEPT !.comms_errors = m.comms_errors,
                  !.xfers = Append(@, cmd_transfer),
                  !.measure = <<m.ret>>,
                  !.sensor_ok = (m.ret = OK),
                  !.collect_phase = TRUE,
                  !.schedule = Append(@, CONVERSION_INTERVAL)]

\* One invocation of RunImpl with the read transfer rx (met in the collect
\* phase only) and the result tx of the command transfer (met only when the
\* measurement phase is reached).
RunImplOutcome(s, rx, tx) ==
    IF s.collect_phase
    THEN LET c == collection(s, rx)
         IN  IF collect_failed(c.collect[1]) THEN restart(c)
             ELSE LET n == [c EXCEPT !.collect_phase = FALSE]
                  IN  IF measure_gap(n.measure_interval) THEN wait_gap(n)
                      ELSE measurement(n, tx)
    ELSE measurement(s, tx)

\* The read transfers an invocation can meet: none is issued outside the
\* collect phase.
NoRead == [ret |-> OK, val |-> <<0, 0, 0, 0>>]
Reads == IF _collect_phase THEN BusReads ELSE {NoRead}
Issued(rx) == IF _collect_phase THEN <<rx>> ELSE <<>>

\* The bytes of a collect whose transfer was OK.
ReadVal(rd) ==
    IF rd = <<>> THEN last_val
    ELSE IF rd[1].ret = OK THEN rd[1].val
    ELSE <<>>

\* Whether the collect read, with an OK transfer, the bytes the collect
\* before it had read.
Reread(rd) ==
    /\ rd # <<>>
    /\ rd[1].ret = OK
    /\ rd[1].val = last_val

\* Whether _sample_perf has an interval begun and not ended after the calls p.
Running(p) == IF p = <<>> THEN _sample_perf ELSE p[Len(p)] = "begin"

\* The most recently published sample after an invocation.
Latest(o) == IF o.published = <<>> THEN last_report ELSE o.published

\* The work queue runs the scheduled invocation; `waited` is the delay it was
\* scheduled with, which the work queue never shortens. `latest` is the
\* record kept of the most recently published sample.
Invoke(o, rd, errs, latest) ==
    /\ _collect_phase' = o.collect_phase
    /\ _sensor_ok' = o.sensor_ok
    /\ _measure_interval' = o.measure_interval
    /\ _dp_raw_prev' = o.dp_raw_prev
    /\ _dT_raw_prev' = o.dT_raw_prev
    /\ _comms_errors' = errs
    /\ work_queue' = Tail(work_queue) \o o.schedule
    /\ run' = [waited |-> Head(work_queue),
               xfers |-> o.xfers,
               collect |-> o.collect,
               measure |-> o.measure,
               raw |-> o.raw,
               published |-> o.published,
               perf |-> o.perf,
               reread |-> Reread(rd)]
    /\ last_val' = ReadVal(rd)
    /\ peer' = peer
    /\ _sample_perf' = Running(o.perf)
    /\ last_report' = latest

\* The results the command transfer can have after the read rx: it has one
\* only when the invocation issues it.
Writes(rx) ==
    IF RunImplOutcome(Enter, rx, OK).measure = <<>> THEN {OK}
    ELSE TransferResults

RunImpl ==
    /\ work_queue # <<>>
    /\ \E rx \in Reads :
          /\ bus_read' = Issued(rx)
          /\ \E tx \in Writes(rx) :
                \E o \in {RunImplOutcome(Enter, rx, tx)} :
                    /\ o.comms_errors <= MaxErrors
                    /\ Invoke(o, Issued(rx), o.comms_errors, Latest(o))
                    /\ alone' = alone

\* The same with the error counter kept modulo MaxErrors + 1 instead of
\* capped (the perf counter is a 64-bit count that RunImpl never reads), so
\* that runs in which every transfer fails for ever are behaviours. No record
\* of the most recently published sample is kept.
RunImplWrap ==
    /\ work_queue # <<>>
    /\ \E rx \in Reads :
          /\ bus_read' = Issued(rx)
          /\ \E tx \in Writes(rx) :
                \E o \in {RunImplOutcome(Enter, rx, tx)} :
                    /\ Invoke(o, Issued(rx), o.comms_errors % (MaxErrors + 1),
                              last_report)
                    /\ alone' = alone

\* ------------------------------------------------------------ specifications

NoRun == [waited |-> 0, xfers |-> <<>>, collect |-> <<>>, measure |-> <<>>,
          raw |-> <<>>, published |-> <<>>, perf |-> <<>>, reread |-> FALSE]

\* The session after the constructor and instantiate(): ScheduleNow().
\* _measure_interval keeps its initialiser 0: nothing in the driver writes it.
Init ==
    /\ _collect_phase = FALSE
    /\ _sensor_ok = FALSE
    /\ _measure_interval = 0
    /\ _dp_raw_prev = 0
    /\ _dT_raw_prev = 0
    /\ _comms_errors = 0
    /\ work_queue = <<0>>
    /\ bus_read = <<>>
    /\ run = NoRun
    /\ last_val = <<>>
    /\ _sample_perf = FALSE
    /\ last_report = <<>>
    /\ peer = SessionInit
    /\ alone = <<SessionInit, SessionInit>>

\* The same with a configured poll interval: 0, the conversion interval, or
\* more than it.
InitPoll ==
    /\ _collect_phase = FALSE
    /\ _sensor_ok = FALSE
    /\ _measure_interval \in PollIntervals
    /\ _dp_raw_prev = 0
    /\ _dT_raw_prev = 0
    /\ _comms_errors = 0
    /\ work_queue = <<0>>
    /\ bus_read = <<>>
    /\ run = NoRun
    /\ last_val = <<>>
    /\ _sample_perf = FALSE
    /\ last_report = <<>>
    /\ peer = SessionInit
    /\ alone = <<SessionInit, SessionInit>>

Next == RunImpl

Spec == Init /\ [][Next]_vars

SpecPoll == InitPoll /\ [][Next]_vars

NextLive == RunImplWrap

LiveSpec == InitPoll /\ [][NextLive]_vars /\ WF_vars(RunImplWrap)

\* ------------------------------------------------------------ collect() alone

\* Responses over the whole range of the bytes: every pressure count, and
\* every temperature count with the low five bits of val[3] clear and set.
PressureVals == {<<b0, b1, 0, 32>> : b0 \in 0..63, b1 \in 0..255}
TemperatureVals ==
    {<<32, 0, b2, 32 * k + l>> : b2 \in 0..255, k \in 0..7, l \in {0, 31}}
DecodeVals ==
    PressureVals \cup TemperatureVals \cup NormalVals
        \cup ReservedVals \cup StaleVals \cup FaultVals

\* The cache a collect can find: the initial one, or that of a published
\* sample.
DecodeCaches == {<<0, 0>>, <<1, 2>>}

\* A session in its collect phase, before or after a first publish.
InitDecode ==
    /\ _collect_phase = TRUE
    /\ _sensor_ok = TRUE
    /\ _measure_interval = 0
    /\ \E cache \in DecodeCaches :
          /\ _dp_raw_prev = cache[1]
          /\ _dT_raw_prev = cache[2]
    /\ _comms_errors = 0
    /\ work_queue = <<CONVERSION_INTERVAL>>
    /\ bus_read = <<>>
    /\ run = NoRun
    /\ last_val = <<>>
    /\ _sample_perf = FALSE
    /\ last_report = IF _dp_raw_prev = 0 THEN <<>>
                     ELSE <<report(_dp_raw_prev, _dT_raw_prev, 0)>>
    /\ peer = SessionInit
    /\ alone = <<SessionInit, SessionInit>>

\* One call of collect() whose transfer succeeds, taken on its own.
Collect ==
    /\ run = NoRun
    /\ \E val \in DecodeVals :
          \E o \in {collection(Enter, [ret |-> OK, val |-> val])} :
             /\ bus_read' = <<[ret |-> OK, val |-> val]>>
             /\ _dp_raw_prev' = o.dp_raw_prev
             /\ _dT_raw_prev' = o.dT_raw_prev
             /\ _comms_errors' = o.comms_errors
             /\ run' = [NoRun EXCEPT !.xfers = o.xfers,
                                     !.collect = o.collect,
                                     !.raw = o.raw,
                                     !.published = o.published,
                                     !.perf = o.perf]
             /\ last_val' = val
             /\ _sample_perf' = Running(o.perf)
             /\ last_report' = Latest(o)
             /\ UNCHANGED <<_collect_phase, _sensor_ok, _measure_interval,
                            work_queue, peer, alone>>

NextDecode == Collect

DecodeSpec == InitDecode /\ [][NextDecode]_vars

\* ------------------------------------------------------------ two instances

\* The transfers the two instances meet: a read of two Normal responses, of
\* a Stale and of a Fault response, a failed read; a command write that
\* succeeds or fails.
TwoReads ==
    {[ret |-> OK, val |-> <<63, 0, 0, 255>>],
     [ret |-> OK, val |-> <<0, 0, 128, 0>>],
     [ret |-> OK, val |-> <<128, 0, 0, 0>>],
     [ret |-> OK, val |-> <<192, 0, 0, 0>>],
     [ret |-> -1, val |-> <<0, 0, 0, 0>>]}
TwoWrites == {OK, -1}

\* The instance after the invocation with outcome o, which it entered with
\* the scheduled invocations `queue` and _sample_perf as in `perf`.
SessionAfter(o, queue, perf) ==
    [collect_phase |-> o.collect_phase, sensor_ok |-> o.sensor_ok,
     measure_interval |-> o.measure_interval,
     dp_raw_prev |-> o.dp_raw_prev, dT_raw_prev |-> o.dT_raw_prev,
     comms_errors |-> o.comms_errors,
     work_queue |-> Tail(queue) \o o.schedule,
     sample_perf |-> IF o.perf = <<>> THEN perf
                     ELSE o.perf[Len(o.perf)] = "begin",
     xfers |-> o.xfers, collect |-> o.collect, measure |-> o.measure,
     published |-> o.published]

\* The instance i, on its own, after an invocation that meets rx and tx.
Alone(i, rx, tx) ==
    SessionAfter(RunImplOutcome(EnterOf(i), rx, tx), i.work_queue, i.sample_perf)

\* RunImpl of the first instance.
RunImplSelf ==
    /\ work_queue # <<>>
    /\ \E rx \in (IF _collect_phase THEN TwoReads ELSE {NoRead}) :
          /\ bus_read' = Issued(rx)
          /\ \E tx \in Writes(rx) \cap TwoWrites :
                \E o \in {RunImplOutcome(Enter, rx, tx)} :
                    /\ o.comms_errors <= MaxErrors
                    /\ Invoke(o, Issued(rx), o.comms_errors, Latest(o))
                    /\ alone' = [alone EXCEPT ![1] = Alone(@, rx, tx)]

\* RunImpl of the second instance.
RunImplPeer ==
    /\ peer.work_queue # <<>>
    /\ \E rx \in (IF peer.collect_phase THEN TwoReads ELSE {NoRead}) :
          \E tx \in (IF RunImplOutcome(PeerEnter, rx, OK).measure = <<>>
                     THEN {OK} ELSE TwoWrites) :
             \E o \in {RunImplOutcome(PeerEnter, rx, tx)} :
                /\ o.comms_errors <= MaxErrors
                /\ peer' = SessionAfter(o, peer.work_queue, peer.sample_perf)
                /\ alone' = [alone EXCEPT ![2] = Alone(@, rx, tx)]
                /\ UNCHANGED <<_collect_phase, _sensor_ok, _measure_interval,
                               _dp_raw_prev, _dT_raw_prev, _comms_errors,
                               work_queue, bus_read, run, last_val,
                               _sample_perf, last_report>>

NextTwo == RunImplSelf \/ RunImplPeer

TwoSpec == Init /\ [][NextTwo]_vars

\* ------------------------------------------------------------ claims

\* What the last invocation did.
Collected == run.collect # <<>>
Measured == run.measure # <<>>
Published == run.published # <<>>
Cache == <<_dp_raw_prev, _dT_raw_prev>>

\* The bus operations of the protocol.
CommandWrite == [send |-> <<0>>, send_len |-> 1, recv_len |-> 0]
ResponseRead == [send |-> <<>>, send_len |-> 0, recv_len |-> 4]

\* The top two bits of byte 0 and the two counts of a response.
StatusBits(val) == val[1] \div 64
PressureCount(val) == (val[1] * 256 + val[2]) % 16384
TemperatureCount(val) == (val[3] * 256 + val[4]) \div 32

\* The reset of the state machine: flag cleared, phase MEASURE, next
\* invocation scheduled with zero delay, no command sent.
ResetPath ==
    /\ ~_collect_phase
    /\ ~_sensor_ok
    /\ work_queue = <<0>>
    /\ ~Measured

\* C1: the bus operations of a session alternate strictly, starting with the
\* command write (one byte 0x00, read length 0), each followed by a 4-byte
\* read with write length 0: every invocation issues at least one operation,
\* the first one ever is the command write, and no two successive operations
\* (within an invocation or across invocations) are of the same kind.
C1_Alternation ==
    [][LET before == IF run.xfers = <<>> THEN <<>>
                     ELSE <<run.xfers[Len(run.xfers)]>>
           ops == before \o run'.xfers
       IN  /\ run'.xfers # <<>>
           /\ \A i \in 1..Len(run'.xfers) :
                  run'.xfers[i] \in {CommandWrite, ResponseRead}
           /\ ops[1] = CommandWrite \/ before # <<>>
           /\ \A i \in 1..(Len(ops) - 1) : ops[i] # ops[i + 1]]_vars

\* A collect read followed in the same invocation by the next command, after
\* faults.
C1_Witness ==
    /\ run.xfers = <<ResponseRead, CommandWrite>>
    /\ _comms_errors > 0

\* C2: the measure part runs when the invocation starts in the MEASURE phase
\* or falls through after a successful collect; whenever it runs it sends the
\* command, the invocation ends in the COLLECT phase with the last-known-good
\* flag equal to (send succeeded), a failed send counts exactly one error and
\* the next invocation is scheduled all the same.
C2_MeasurePart ==
    [][/\ ~_collect_phase => run'.measure # <<>>
       /\ (/\ _collect_phase
           /\ run'.collect[1] = OK
           /\ ~(_measure_interval > CONVERSION_INTERVAL)) => run'.measure # <<>>
       /\ run'.measure # <<>> =>
            /\ run'.xfers[Len(run'.xfers)] = CommandWrite
            /\ _collect_phase'
            /\ _sensor_ok' = (run'.measure[1] = OK)
            /\ _comms_errors' =
                 _comms_errors + (IF run'.measure[1] = OK THEN 0 ELSE 1)
            /\ Len(work_queue') = 1]_vars

\* A failed send after a successful collect in the same invocation.
C2_Witness ==
    /\ Collected
    /\ Measured
    /\ run.measure[1] # OK
    /\ _collect_phase
    /\ ~_sensor_ok

\* C3: an invocation in the COLLECT phase whose collect fails ends in the
\* MEASURE phase with the last-known-good flag cleared, schedules the next
\* invocation with zero delay and sends no command: only the read was issued.
C3_CollectFailure ==
    (Collected /\ run.collect[1] # OK) =>
        /\ ResetPath
        /\ run.xfers = <<ResponseRead>>

\* A collect that failed on its read, with a cache that holds a published
\* sample.
C3_Witness ==
    /\ Collected
    /\ run.collect[1] # OK
    /\ bus_read[1].ret = -1
    /\ Cache # <<0, 0>>

ProtocolFault(rd) ==
    /\ rd # <<>>
    /\ rd[1].ret = OK
    /\ \/ StatusBits(rd[1].val) \in {2, 3}
       \/ /\ StatusBits(rd[1].val) = 0
          /\ TemperatureCount(rd[1].val) = 2047

\* C5 as stated: a collect aborted by a protocol fault leaves the cache
\* unchanged and does not take the reset path.
C5_Original ==
    [][ProtocolFault(bus_read') =>
          /\ Cache' = Cache
          /\ ~ResetPath']_vars

\* C5 amended: a collect aborted by a protocol fault leaves the cache
\* unchanged and publishes nothing, and the invocation takes the same reset
\* path as after a transport fault: flag cleared, phase MEASURE, next
\* invocation with zero delay, no command sent.
C5_ProtocolFault ==
    [][ProtocolFault(bus_read') =>
          /\ Cache' = Cache
          /\ run'.published = <<>>
          /\ run'.collect[1] = -EAGAIN
          /\ ResetPath']_vars

\* A Stale response met with a cache that holds a published sample.
C5_Witness ==
    /\ ProtocolFault(bus_read)
    /\ StatusBits(bus_read[1].val) = 2
    /\ _dp_raw_prev # 0

\* C6: an invocation that issues the command schedules the next one after
\* the conversion interval, 10000 microseconds; every collect read is made by
\* an invocation that was scheduled with at least that delay, and the
\* invocation before it is the one that issued the command.
C6_ConversionInterval ==
    /\ [](Measured => work_queue = <<10000>>)
    /\ [](Collected => run.waited >= 10000)
    /\ [][run'.collect # <<>> => run.measure # <<>>]_vars

\* A collect read made one conversion interval after the command.
C6_Witness ==
    /\ Collected
    /\ run.waited = 10000
    /\ Published

\* C7: every invocation schedules exactly one further invocation, and the
\* command is issued infinitely often.
C7_NoTerminalState ==
    /\ [](Len(work_queue) = 1)
    /\ []<>Measured

\* The command issued again after the error counter wrapped: more than
\* MaxErrors faults have happened.
C7_Witness ==
    /\ Measured
    /\ run.measure[1] # OK
    /\ _comms_errors = 0

\* C8: a collect publishes only on a Normal response with a temperature
\* count other than 2047 whose two counts both differ from the cache; when
\* either count equals the cached one it publishes nothing and returns
\* success; the cache changes only in an invocation that publishes, and
\* becomes the decoded pair.
C8_PublishChanges ==
    [][LET val == bus_read'[1].val
           dp == PressureCount(val)
           dT == TemperatureCount(val)
       IN  /\ run'.published # <<>> =>
                /\ run'.collect # <<>>
                /\ ~(bus_read'[1].ret < 0)
                /\ StatusBits(val) = 0
                /\ dT # 2047
                /\ dp # _dp_raw_prev
                /\ dT # _dT_raw_prev
                /\ Len(run'.published) = 1
                /\ run'.published[1].dp_raw = dp
                /\ run'.published[1].dT_raw = dT
                /\ Cache' = <<dp, dT>>
           /\ (/\ run'.collect # <<>>
               /\ ~(bus_read'[1].ret < 0)
               /\ StatusBits(val) = 0
               /\ dT # 2047
               /\ (dp = _dp_raw_prev \/ dT = _dT_raw_prev)) =>
                /\ run'.published = <<>>
                /\ run'.collect[1] = OK
           /\ Cache' # Cache => run'.published # <<>>]_vars

\* A sample suppressed although its pressure count changed.
C8_Witness ==
    /\ Collected
    /\ run.collect[1] = OK
    /\ ~Published
    /\ PressureCount(bus_read[1].val) # _dp_raw_prev
    /\ TemperatureCount(bus_read[1].val) = _dT_raw_prev

\* C9: when a collect reads the bytes the collect before it read, it does
\* not publish.
C9_ChangeSuppression == run.reread => ~Published

\* The same Normal bytes read twice, the first time published: the second
\* read is suppressed.
C9_Witness ==
    /\ run.reread
    /\ run.collect[1] = OK
    /\ Cache = <<PressureCount(last_val), TemperatureCount(last_val)>>
    /\ Cache # <<0, 0>>

\* C10: a response with status bits 11 makes collect return -EAGAIN, publish
\* nothing, count exactly one error and leave the cache unchanged.
C10_Fault ==
    [][(/\ run'.collect # <<>>
        /\ bus_read'[1].ret = OK
        /\ bus_read'[1].val[1] >= 192) =>
          /\ run'.collect[1] = -EAGAIN
          /\ run'.published = <<>>
          /\ _comms_errors' = _comms_errors + 1
          /\ Cache' = Cache]_vars

\* A Fault response with all other bits set, met with a cache that holds a
\* published sample.
C10_Witness ==
    /\ Collected
    /\ bus_read[1].ret = OK
    /\ bus_read[1].val = <<255, 255, 255, 255>>
    /\ Cache # <<0, 0>>

\* C11: a Normal response whose temperature count is 2047 makes collect
\* return an error (-EAGAIN), publish nothing, count exactly one error and
\* leave the cache unchanged, also when the pressure count differs from the
\* cached one.
C11_Saturation ==
    [][(/\ bus_read' # <<>>
        /\ bus_read'[1].ret = OK
        /\ StatusBits(bus_read'[1].val) = 0
        /\ TemperatureCount(bus_read'[1].val) = 2047) =>
          /\ run'.collect[1] # OK
          /\ run'.collect[1] = -EAGAIN
          /\ run'.published = <<>>
          /\ _comms_errors' = _comms_errors + 1
          /\ Cache' = Cache]_vars

\* A saturated temperature with a pressure count other than the cached one.
C11_Witness ==
    /\ Collected
    /\ bus_read[1].ret = OK
    /\ StatusBits(bus_read[1].val) = 0
    /\ TemperatureCount(bus_read[1].val) = 2047
    /\ PressureCount(bus_read[1].val) # _dp_raw_prev
    /\ _dT_raw_prev # 0

\* C12: the error counter never decreases; it increases by exactly one on
\* each failed command write, each failed read (any result other than OK),
\* each Fault response and each saturated temperature, and by nothing on any
\* other event; the error_count of a published sample is the counter's value
\* at the publish, and is not below the error_count of the sample published
\* before it.
C12_Original ==
    [][LET ReadErrors(rd) ==
               IF rd = <<>> THEN 0
               ELSE IF rd[1].ret # OK THEN 1
               ELSE IF StatusBits(rd[1].val) = 3 THEN 1
               ELSE IF /\ StatusBits(rd[1].val) = 0
                       /\ TemperatureCount(rd[1].val) = 2047 THEN 1
               ELSE 0
           WriteErrors(r) ==
               IF r.measure # <<>> /\ r.measure[1] # OK THEN 1 ELSE 0
       IN  /\ _comms_errors' >= _comms_errors
           /\ _comms_errors' =
                _comms_errors + ReadErrors(bus_read') + WriteErrors(run')
           /\ run'.published # <<>> =>
                /\ run'.published[1].error_count =
                     _comms_errors + ReadErrors(bus_read')
                /\ last_report # <<>> =>
                     run'.published[1].error_count
                        >= last_report[1].error_count]_vars

\* C13: the decode is a function of the four bytes alone: for a Normal
\* response the pressure count is (b0*256 + b1) AND 0x3FFF and the
\* temperature count is ((b2*256 + b3) AND 0xFFE0) >> 5, within 0..16383 and
\* 0..2047, and the low five bits of b3 have no effect on them.
C13_Decode ==
    bus_read # <<>> =>
        LET val == bus_read[1].val
        IN  /\ StatusBits(val) = 0 <=> run.raw # <<>>
            /\ run.raw # <<>> =>
                 /\ run.raw[1] = (val[1] * 256 + val[2]) % 16384
                 /\ run.raw[2] = ((val[3] * 256 + val[4]) % 65536) \div 32
                 /\ run.raw[1] \in 0..16383
                 /\ run.raw[2] \in 0..2047
                 /\ \A low \in 0..31 :
                       LET other == [val EXCEPT ![4] = (val[4] \div 32) * 32 + low]
                       IN  <<dp_raw(other), dT_raw(other)>> = run.raw

\* A response with the top bit of val[2] and the low bits of val[3] set,
\* decoded with a cache other than the initial one.
C13_Witness ==
    /\ bus_read # <<>>
    /\ bus_read[1].val = <<32, 0, 255, 255>>
    /\ run.raw = <<8192, 2047>>
    /\ Cache = <<1, 2>>

\* C14: in exact arithmetic the published pressure is
\* 6894.757 * -((count - 0.1*16383) * 2 / (0.8*16383) - 1) Pa: it decreases
\* strictly with the count, is positive up to count 8191 and negative from
\* 8192, within 1 Pa of zero at 8192, +1 PSI at 10% and -1 PSI at 90% of full
\* scale; the temperature is 200 * count / 2047 - 50, strictly increasing
\* from -50 at count 0.
C14_Conversion ==
    Published =>
        LET r == run.published[1]
            pa == r.differential_pressure_pa
            below == diff_press_pa_raw(diff_press_PSI(<<r.dp_raw + 1, 1>>))
        IN  /\ pa = MixedMul(Rat(81915 - 10 * r.dp_raw, 65532),
                             <<6894757, 1000>>)
            /\ pa.num >= 0 /\ pa.num < pa.den
            /\ r.dp_raw <= 8191 => pa.whole >= 0 /\ (pa.whole > 0 \/ pa.num > 0)
            /\ r.dp_raw >= 8192 => pa.whole < 0
            /\ r.dp_raw = 8192 => pa.whole = -1 /\ pa.num > 0
            /\ r.dp_raw < 16383 => below.whole < pa.whole
            /\ diff_press_PSI(<<16383, 10>>) = <<1, 1>>
            /\ diff_press_pa_raw(diff_press_PSI(<<16383, 10>>))
                 = [whole |-> 6894, num |-> 757, den |-> 1000]
            /\ diff_press_PSI(<<9 * 16383, 10>>) = <<-1, 1>>
            /\ diff_press_pa_raw(diff_press_PSI(<<9 * 16383, 10>>))
                 = [whole |-> -6895, num |-> 243, den |-> 1000]
            /\ r.temperature = Rat(200 * r.dT_raw - 50 * 2047, 2047)
            /\ r.dT_raw = 0 => r.temperature = <<-50, 1>>
            /\ RatLess(r.temperature, temperature(r.dT_raw + 1))

\* The first negative pressure, published.
C14_Witness ==
    /\ Published
    /\ run.published[1].dp_raw = 8192
    /\ run.published[1].differential_pressure_pa.whole = -1
    /\ run.published[1].dT_raw = 2046

\* C16: after a successful collect in the COLLECT phase, a poll interval
\* above the conversion interval sends no command, leaves the phase MEASURE
\* and schedules the next step after exactly (poll - conversion), so that the
\* command of the next step comes one poll interval after the last one; a
\* poll interval up to the conversion interval (the default 0 included)
\* falls through: the command is sent, the phase is COLLECT and the next
\* step comes after the conversion interval.
C16_PollGap ==
    [][/\ (_collect_phase /\ run'.collect = <<OK>>) =>
            IF _measure_interval > CONVERSION_INTERVAL
            THEN /\ run'.measure = <<>>
                 /\ run'.xfers = <<ResponseRead>>
                 /\ ~_collect_phase'
                 /\ work_queue' = <<_measure_interval - CONVERSION_INTERVAL>>
            ELSE /\ run'.measure # <<>>
                 /\ run'.xfers = <<ResponseRead, CommandWrite>>
                 /\ _collect_phase'
                 /\ work_queue' = <<CONVERSION_INTERVAL>>
       /\ (Collected /\ run.collect = <<OK>> /\ ~Measured) =>
            /\ run'.collect = <<>>
            /\ run'.measure # <<>>
            /\ run.waited + run'.waited = _measure_interval]_vars

\* A successful collect followed by the gap, and the command after the gap.
C16_Witness ==
    /\ _measure_interval > CONVERSION_INTERVAL
    /\ Measured
    /\ ~Collected
    /\ run.waited = _measure_interval - CONVERSION_INTERVAL

\* C17: a Stale or Reserved response makes collect return -EAGAIN, publish
\* nothing, leave the cache unchanged and count no error; only a response of
\* status 0 is decoded or published.
C17_StaleReserved ==
    [][bus_read' # <<>> =>
         /\ (bus_read'[1].ret = OK /\ StatusBits(bus_read'[1].val) \in {1, 2}) =>
               /\ run'.collect = <<-EAGAIN>>
               /\ run'.published = <<>>
               /\ Cache' = Cache
               /\ _comms_errors' = _comms_errors
         /\ (run'.raw # <<>> \/ run'.published # <<>>) =>
               StatusBits(bus_read'[1].val) = 0]_vars

\* A Stale response with every other bit set, met with a cache other than
\* the initial one and errors counted before.
C17_Witness ==
    /\ Collected
    /\ bus_read[1] = [ret |-> OK, val |-> <<191, 255, 255, 255>>]
    /\ Cache # <<0, 0>>
    /\ _comms_errors > 0

\* C18: a collect whose read failed, with any result other than OK, decodes
\* nothing, publishes nothing, leaves the cache unchanged and ends in the
\* reset of the state machine.
C18_Original ==
    [][(bus_read' # <<>> /\ bus_read'[1].ret # OK) =>
          /\ run'.raw = <<>>
          /\ run'.published = <<>>
          /\ Cache' = Cache
          /\ ResetPath']_vars

\* C19: the cache is the pair of counts of the most recently published
\* sample, or (0, 0) before the first publish; so a published sample differs
\* in both counts from the one published before it, and before the first
\* publish a Normal response with a zero count is not published.
C19_LastPublished ==
    /\ [](Cache = IF last_report = <<>> THEN <<0, 0>>
                  ELSE <<last_report[1].dp_raw, last_report[1].dT_raw>>)
    /\ [][(run'.published # <<>> /\ last_report # <<>>) =>
             /\ run'.published[1].dp_raw # last_report[1].dp_raw
             /\ run'.published[1].dT_raw # last_report[1].dT_raw]_vars
    /\ [][(/\ last_report = <<>>
           /\ bus_read' # <<>>
           /\ bus_read'[1].ret = OK
           /\ StatusBits(bus_read'[1].val) = 0
           /\ \/ PressureCount(bus_read'[1].val) = 0
              \/ TemperatureCount(bus_read'[1].val) = 0) =>
             run'.published = <<>>]_vars

\* A sample with the pressure count 0 published: the one before it had
\* another pressure count.
C19_Witness ==
    /\ Published
    /\ run.published[1].dp_raw = 0
    /\ last_report = run.published
    /\ Cache = <<0, run.published[1].dT_raw>>

\* C20: every collect begins the elapsed-time counter once and ends it once
\* before it returns, on every path, and never begins it while an interval
\* is open.
C20_Original ==
    [][run'.collect # <<>> =>
          /\ ~_sample_perf
          /\ run'.perf = <<"begin", "end">>
          /\ ~_sample_perf']_vars

\* C15: two instances whose steps interleave are independent: a step of one
\* leaves the phase, the last-known-good flag, the cache and the error
\* counter of the other unchanged, and each instance is at every step in the
\* state, with the transfers and the samples of its last invocation, that it
\* has when it meets the same bus responses alone.
C15_Independent ==
    /\ [](Self = alone[1] /\ peer = alone[2])
    /\ [][\/ <<_collect_phase, _sensor_ok, _dp_raw_prev, _dT_raw_prev,
               _comms_errors>>'
                = <<_collect_phase, _sensor_ok, _dp_raw_prev, _dT_raw_prev,
                    _comms_errors>>
          \/ <<peer.collect_phase, peer.sensor_ok, peer.dp_raw_prev,
               peer.dT_raw_prev, peer.comms_errors>>'
                = <<peer.collect_phase, peer.sensor_ok, peer.dp_raw_prev,
                    peer.dT_raw_prev, peer.comms_errors>>]_vars

\* The second instance publishes the counts the first one has in its cache,
\* while the first is in the other phase and has counted errors.
C15_Witness ==
    /\ peer.published # <<>>
    /\ Cache = <<peer.published[1].dp_raw, peer.published[1].dT_raw>>
    /\ _collect_phase # peer.collect_phase
    /\ _comms_errors > peer.comms_errors

====
